---- MODULE Spec2Model ----
(***************************************************************************)
(* Model of the apollo-parser driver (crates/apollo-parser/src/parser/     *)
(* mod.rs): the Parser struct (reversed token stack, shared tree builder,  *)
(* error list), its driver operations and the NodeGuard that closes nodes. *)
(* The lexer, the SyntaxTreeBuilder and the grammar live in other files of *)
(* the crate; they are modelled from the design document: the lexer as a   *)
(* function from a sequence of lexemes to tokens and errors, the builder   *)
(* as a stack of frames, the grammar as an arbitrary caller of the driver. *)
(***************************************************************************)
EXTENDS Integers, Sequences, FiniteSets, TLC

VARIABLES input, tokens, builder, errors, guards, pc, panic, tree, lookahead,
          enum_value, union_def

\* The two encoder objects; the parser never touches them.
encoder == <<enum_value, union_def>>

\* The parser's own state.
parser == <<input, tokens, builder, errors, guards, pc, panic, tree, lookahead>>

vars == <<input, tokens, builder, errors, guards, pc, panic, tree, lookahead,
          enum_value, union_def>>

(* ---------------------------- bounds ----------------------------------- *)

\* Longest input, counted in lexemes (the synthetic Eof not included).
MaxLexemes == 3
\* Most nodes the grammar opens in one run.
MaxNodes == 2
\* Most errors the grammar reports in one run, lexer errors not included.
MaxErrors == 2
\* Deepest lookahead the grammar asks for.
MaxPeek == 2
\* Most calls made on an encoder object before it is printed.
MaxCalls == 3

(* ---------------------------- helpers ---------------------------------- *)

RECURSIVE Reverse(_)
Reverse(s) == IF s = <<>> THEN <<>> ELSE Reverse(Tail(s)) \o <<Head(s)>>

Last(s) == s[Len(s)]

Front(s) == SubSeq(s, 1, Len(s) - 1)

RECURSIVE SeqsUpTo(_, _)
SeqsUpTo(S, n) ==
    IF n = 0 THEN {<<>>}
    ELSE LET shorter == SeqsUpTo(S, n - 1)
         IN  shorter \cup {Append(s, x) : s \in shorter, x \in S}

(* ---------------------------- lexer ------------------------------------ *)

\* The lexemes an input is made of: the token kinds the driver tells apart
\* (a name, a punctuator, the three trivia kinds) and a malformed lexeme.
LexemeKinds == {"Name", "Whitespace", "Comment", "Comma", "Bad"}

LexemeData(k) ==
    CASE k = "Name"       -> "a"
      [] k = "Whitespace" -> "\n"
      [] k = "Comment"    -> "#c"
      [] k = "Comma"      -> ","
      [] k = "Bad"        -> "~"
      [] OTHER            -> ""

\* What the recognition rules can produce: a maximal run of whitespace is one
\* token, a name is a maximal run of name characters, and a comment runs to
\* the end of its line.
LexerCanProduce(ls) ==
    \A i \in 1..Len(ls) - 1 :
        /\ ~(ls[i] = "Name" /\ ls[i + 1] = "Name")
        /\ ~(ls[i] = "Whitespace" /\ ls[i + 1] = "Whitespace")
        /\ (ls[i] = "Comment" => ls[i + 1] = "Whitespace")

Inputs == {ls \in SeqsUpTo(LexemeKinds, MaxLexemes) : LexerCanProduce(ls)}

RECURSIVE InputText(_)
InputText(ls) ==
    IF ls = <<>> THEN "" ELSE LexemeData(Head(ls)) \o InputText(Tail(ls))

InputLen(ls) == Len(InputText(ls))

Token(k, d, i) == [kind |-> k, data |-> d, index |-> i]

Error(m, d, i) == [message |-> m, data |-> d, index |-> i]

\* Tokens in source order, ending with the synthetic Eof at input.len().
RECURSIVE LexTokens(_, _)
LexTokens(ls, off) ==
    IF ls = <<>> THEN <<Token("Eof", "", off)>>
    ELSE LET d    == LexemeData(Head(ls))
             rest == LexTokens(Tail(ls), off + Len(d))
         IN  IF Head(ls) = "Bad" THEN rest
             ELSE <<Token(Head(ls), d, off)>> \o rest

\* One error per malformed lexeme, in source order; it produces no token.
RECURSIVE LexErrors(_, _)
LexErrors(ls, off) ==
    IF ls = <<>> THEN <<>>
    ELSE LET d    == LexemeData(Head(ls))
             rest == LexErrors(Tail(ls), off + Len(d))
         IN  IF Head(ls) = "Bad"
             THEN <<Error("Unexpected character", d, off)>> \o rest
             ELSE rest

(* ---------------------------- tree builder ----------------------------- *)

Leaf(k, text) == [node |-> FALSE, kind |-> k, text |-> text, children |-> <<>>]

Node(k, cs) == [node |-> TRUE, kind |-> k, text |-> "", children |-> cs]

Frame(k) == [kind |-> k, children |-> <<>>]

\* SyntaxTreeBuilder::new: one implicit frame, the document.
NewBuilder == <<Frame("DOCUMENT")>>

BuilderStartNode(b, k) == Append(b, Frame(k))

BuilderToken(b, k, text) ==
    [b EXCEPT ![Len(b)].children = Append(@, Leaf(k, text))]

\* Pops the top frame and attaches the completed node to the new top.
\* Popping the root frame is a misuse; the callers below turn it into a panic.
BuilderFinishNode(b) ==
    IF Len(b) <= 1 THEN b
    ELSE LET top  == Last(b)
             rest == Front(b)
         IN  [rest EXCEPT ![Len(rest)].children =
                              Append(@, Node(top.kind, top.children))]

\* finish(errors): the root frame together with the accumulated errors.
BuilderFinish(b, errs) ==
    [root |-> Node(b[1].kind, b[1].children), errors |-> errs]

(* ---------------------------- parser ----------------------------------- *)

Some(v) == [some |-> TRUE, val |-> v]

None == [some |-> FALSE, val |-> ""]

\* Parser::new keeping the tokens in the order the lexer gave them.
new_without_reverse(ls) ==
    [tokens  |-> LexTokens(ls, 0),
     builder |-> NewBuilder,
     errors  |-> Reverse(LexErrors(ls, 0)),
     guards  |-> 0,
     panic   |-> ""]

\* Parser::new: tokens and lexer errors are collected, then both reversed.
\* guards counts the NodeGuards alive (the builder's extra Rc references);
\* panic holds the message of the panic that ended the run, if any.
new(ls) ==
    [tokens  |-> Reverse(LexTokens(ls, 0)),
     builder |-> NewBuilder,
     errors  |-> Reverse(LexErrors(ls, 0)),
     guards  |-> 0,
     panic   |-> ""]

Panic(P, m) == [P EXCEPT !.panic = IF @ = "" THEN m ELSE @]

Panicked(P) == P.panic # ""

peek(P) == IF P.tokens = <<>> THEN None ELSE Some(Last(P.tokens).kind)

peek_token(P) == IF P.tokens = <<>> THEN None ELSE Some(Last(P.tokens))

peek_data(P) == IF P.tokens = <<>> THEN None ELSE Some(Last(P.tokens).data)

\* at looking past whitespace and comments, as peek_n does.
at_skipping_trivia(P, token) ==
    LET Keeps(t) == t.kind \notin {"Whitespace", "Comment"}
        kept == SelectSeq(Reverse(P.tokens), Keeps)
    IN  kept # <<>> /\ kept[1].kind = token

at(P, token) == peek(P) = Some(token)

\* The filter of peek_n and peek_data_n.
LookaheadKeeps(t) == t.kind \notin {"Whitespace", "Comment"}

\* peek_n counting from the token after the next one: nth(n).
peek_n_from_second(P, n) ==
    LET kept == SelectSeq(Reverse(P.tokens), LookaheadKeeps)
    IN  IF n + 1 <= Len(kept) THEN Some(kept[n + 1].kind) ELSE None

peek_n(P, n) ==
    LET kept == SelectSeq(Reverse(P.tokens), LookaheadKeeps)
    IN  IF n <= Len(kept) THEN Some(kept[n].kind) ELSE None

peek_data_n(P, n) ==
    LET kept == SelectSeq(Reverse(P.tokens), LookaheadKeeps)
    IN  IF n <= Len(kept) THEN Some(kept[n].data) ELSE None

\* push_err keeping only the newest error.
push_err_replacing(P, e) == [P EXCEPT !.errors = <<e>>]

push_err(P, e) == [P EXCEPT !.errors = Append(@, e)]

\* Parser::pop; the token it returns is the one that was next.
pop(P) ==
    IF P.tokens = <<>> THEN Panic(P, "Could not pop a token from the AST")
    ELSE [P EXCEPT !.tokens = Front(@)]

eat(P, kind) ==
    IF P.tokens = <<>> THEN Panic(P, "Could not eat a token from the AST")
    ELSE [P EXCEPT !.tokens  = Front(@),
                   !.builder = BuilderToken(@, kind, Last(P.tokens).data)]

RECURSIVE bump(_, _)
RECURSIVE bump_ignored(_)

bump(P, kind) ==
    LET eaten == eat(P, kind)
    IN  IF Panicked(eaten) THEN eaten ELSE bump_ignored(eaten)

\* bump_ignored with the filter of peek_n as its loop condition.
bump_ignored_stopping_at_comma(P) ==
    IF peek(P) \in {Some("Comment"), Some("Whitespace")}
    THEN LET p1 == IF peek(P) = Some("Comment")
                   THEN bump(P, "COMMENT") ELSE P
             p2 == IF peek(p1) = Some("Whitespace")
                   THEN bump(p1, "WHITESPACE") ELSE p1
             p3 == IF peek(p2) = Some("Comma")
                   THEN bump(p2, "COMMA") ELSE p2
         IN  bump_ignored(p3)
    ELSE P

\* The while loop of bump_ignored: one pass runs the three ifs in order,
\* each of which re-enters bump, then the loop condition is tested again.
bump_ignored(P) ==
    IF peek(P) \in {Some("Comment"), Some("Whitespace"), Some("Comma")}
    THEN LET p1 == IF peek(P) = Some("Comment")
                   THEN bump(P, "COMMENT") ELSE P
             p2 == IF peek(p1) = Some("Whitespace")
                   THEN bump(p1, "WHITESPACE") ELSE p1
             p3 == IF peek(p2) = Some("Comma")
                   THEN bump(p2, "COMMA") ELSE p2
         IN  bump_ignored(p3)
    ELSE P

\* err pointing at the end of the current token.
err_at_token_end(P, message) ==
    IF P.tokens = <<>> THEN Panic(P, "Could not peek at the current token")
    ELSE LET current == Last(P.tokens)
         IN  push_err(P, Error(message, current.data,
                               current.index + Len(current.data)))

err(P, message) ==
    IF P.tokens = <<>> THEN Panic(P, "Could not peek at the current token")
    ELSE LET current == Last(P.tokens)
         IN  push_err(P, Error(message, current.data, current.index))

\* err_and_pop reporting the token that is current after the trivia skip.
err_and_pop_reporting_next(P, message) ==
    IF P.tokens = <<>> THEN Panic(P, "Could not pop a token from the AST")
    ELSE LET skipped == bump_ignored([P EXCEPT !.tokens = Front(@)])
         IN  IF skipped.tokens = <<>>
             THEN Panic(skipped, "Could not peek at the current token")
             ELSE push_err(skipped,
                           Error(message, Last(skipped.tokens).data,
                                 Last(skipped.tokens).index))

err_and_pop(P, message) ==
    IF P.tokens = <<>> THEN Panic(P, "Could not pop a token from the AST")
    ELSE LET current == Last(P.tokens)
             popped  == [P EXCEPT !.tokens = Front(@)]
         IN  push_err(bump_ignored(popped),
                      Error(message, current.data, current.index))

\* expect discarding the token it did not expect.
expect_advancing(P, token, kind) ==
    IF P.tokens = <<>> THEN Panic(P, "Could not peek at the current token")
    ELSE LET current == Last(P.tokens)
             data    == current.data
         IN  IF at(P, token) THEN bump(P, kind)
             ELSE push_err(bump_ignored([P EXCEPT !.tokens = Front(@)]),
                           Error("expected " \o kind \o ", got " \o data,
                                 data, current.index))

expect(P, token, kind) ==
    IF P.tokens = <<>> THEN Panic(P, "Could not peek at the current token")
    ELSE LET current == Last(P.tokens)
             data    == current.data
         IN  IF at(P, token) THEN bump(P, kind)
             ELSE push_err(P, Error("expected " \o kind \o ", got " \o data,
                                    data, current.index))

\* start_node skipping the trivia before it opens the node.
start_node_skipping_first(P, kind) ==
    LET skipped == bump_ignored(P)
    IN  [skipped EXCEPT !.builder = BuilderStartNode(@, kind),
                        !.guards  = @ + 1]

start_node(P, kind) ==
    bump_ignored([P EXCEPT !.builder = BuilderStartNode(@, kind),
                           !.guards  = @ + 1])

\* impl Drop for NodeGuard: finish_node on the shared builder, once.
NodeGuard_drop(P) ==
    IF Len(P.builder) <= 1
    THEN Panic([P EXCEPT !.guards = @ - 1], "finish_node without start_node")
    ELSE [P EXCEPT !.builder = BuilderFinishNode(@), !.guards = @ - 1]

\* finish_node closing the node itself before self goes out of scope.
NodeGuard_finish_node_twice(P) ==
    NodeGuard_drop([P EXCEPT !.builder = BuilderFinishNode(@)])

\* NodeGuard::finish_node(self): drop(self).
NodeGuard_finish_node(P) == NodeGuard_drop(P)

\* grammar::document returns: the guards still in scope are dropped.
RECURSIVE document_return(_)
document_return(P) ==
    IF P.guards = 0 \/ Panicked(P) THEN P
    ELSE document_return(NodeGuard_drop(P))

\* Parser::parse after the grammar has run.
parse(P) ==
    LET ret == document_return(P)
    IN  IF Panicked(ret) THEN ret
        ELSE IF ret.guards # 0
        THEN Panic(ret, "More than one reference to builder left")
        ELSE IF Len(ret.builder) # 1
        THEN Panic(ret, "finish with an unclosed node")
        ELSE ret

(* ---------------------------- encoder ---------------------------------- *)

\* A text handed to the encoder, as its lines.
Sources == {<<"Box nap spot.">>, <<"Box nap", "spot.">>,
            <<"Box was \"recycled\".">>}

HasQuote(line) == line = "Box was \"recycled\"."

NoSource == [some |-> FALSE, val |-> <<>>]

SomeSource(src) == [some |-> TRUE, val |-> src]

StringValue(position, source) == [position |-> position, source |-> source]

RECURSIVE IndentedLines(_, _)
IndentedLines(indent, lines) ==
    IF lines = <<>> THEN ""
    ELSE indent \o Head(lines) \o "\n" \o IndentedLines(indent, Tail(lines))

\* Display of StringValue: nothing without a source; a quoted line for a
\* short single-line source; a block string for a source of several lines
\* or with a quote in it. Top is not indented, Field is indented and Reason
\* is written inline.
StringValue_fmt(sv) ==
    IF ~sv.source.some THEN ""
    ELSE LET lines == sv.source.val
             block == Len(lines) > 1 \/ \E i \in 1..Len(lines) : HasQuote(lines[i])
         IN  CASE sv.position = "Top" ->
                    IF block
                    THEN "\"\"\"\n" \o IndentedLines("", lines) \o "\"\"\"\n"
                    ELSE "\"" \o lines[1] \o "\"\n"
               [] sv.position = "Field" ->
                    IF block
                    THEN "  \"\"\"\n" \o IndentedLines("  ", lines)
                         \o "  \"\"\"\n"
                    ELSE "  \"" \o lines[1] \o "\"\n"
               [] sv.position = "Reason" ->
                    IF block
                    THEN "\n  \"\"\"\n" \o IndentedLines("  ", lines)
                         \o "  \"\"\"\n  "
                    ELSE " \"" \o lines[1] \o "\""

EnumNames == {"CAT_TREE"}

EnumValueBuilder_new(name) ==
    [name |-> name, description |-> NoSource, deprecation_reason |-> NoSource]

EnumValueBuilder_description(b, description) ==
    [b EXCEPT !.description = SomeSource(description)]

EnumValueBuilder_deprecated(b, reason) ==
    [b EXCEPT !.deprecation_reason = SomeSource(reason)]

\* build taking is_deprecated from the description.
EnumValueBuilder_build_by_description(b) ==
    [name               |-> b.name,
     description        |-> StringValue("Field", b.description),
     is_deprecated      |-> b.description.some,
     deprecation_reason |-> StringValue("Reason", b.deprecation_reason)]

EnumValueBuilder_build(b) ==
    [name               |-> b.name,
     description        |-> StringValue("Field", b.description),
     is_deprecated      |-> b.deprecation_reason.some,
     deprecation_reason |-> StringValue("Reason", b.deprecation_reason)]

\* impl Display for EnumValue, one write! after the other.
EnumValue_fmt(v) ==
    LET w1 == StringValue_fmt(v.description)
        w2 == w1 \o "  " \o v.name
    IN  IF v.is_deprecated
        THEN LET w3 == w2 \o " @deprecated"
             IN  IF v.deprecation_reason.position = "Reason"
                 THEN w3 \o "(reason:"
                         \o StringValue_fmt(v.deprecation_reason) \o ")"
                 ELSE w3
        ELSE w2

UnionNames == {"Pet"}

UnionMembers == {"Cat", "Dog"}

UnionDef_new(name) ==
    [name |-> name, description |-> StringValue("Top", NoSource),
     members |-> <<>>]

UnionDef_description(u, description) ==
    [u EXCEPT !.description = StringValue("Top", SomeSource(description))]

UnionDef_member(u, member) == [u EXCEPT !.members = Append(@, member)]

\* The loop over members.iter().enumerate().
RECURSIVE WriteMembers(_, _, _)
WriteMembers(f, members, i) ==
    IF i >= Len(members) THEN f
    ELSE WriteMembers(IF i = 0 THEN f \o members[i + 1]
                      ELSE f \o " | " \o members[i + 1],
                      members, i + 1)

\* Display writing the separator before every member.
UnionDef_fmt_leading_pipe(u) ==
    LET PutAll(ms) == WriteMembers("", <<"">> \o ms, 0)
    IN  StringValue_fmt(u.description) \o "union " \o u.name \o " = "
        \o PutAll(u.members) \o "\n"

\* impl Display for UnionDef.
UnionDef_fmt(u) ==
    LET w1 == StringValue_fmt(u.description)
        w2 == w1 \o "union " \o u.name \o " = "
        w3 == WriteMembers(w2, u.members, 0)
    IN  w3 \o "\n"

(* ---------------------------- the run ---------------------------------- *)

\* What the grammar passes to the driver.
BumpKinds == {"NAME"}

ExpectPairs == {<<"Name", "NAME">>}

NodeKinds == {"FIELD"}

ErrMessages == {"expected a Name"}

PopMessages == {"expected definition"}

NoTree == [root |-> Node("NONE", <<>>), errors |-> <<>>]

NoLookahead == [n |-> 0, kind |-> None, data |-> None]

\* The parser as the variables hold it.
Self ==
    [tokens |-> tokens, builder |-> builder, errors |-> errors,
     guards |-> guards, panic |-> panic]

Store(P) ==
    /\ tokens' = P.tokens
    /\ builder' = P.builder
    /\ errors' = P.errors
    /\ guards' = P.guards
    /\ panic' = P.panic
    /\ pc' = IF Panicked(P) THEN "panicked" ELSE pc

RECURSIVE CountNodes(_)
CountNodes(cs) ==
    IF cs = <<>> THEN 0
    ELSE (IF Head(cs).node THEN 1 + CountNodes(Head(cs).children) ELSE 0)
         + CountNodes(Tail(cs))

RECURSIVE NodesStarted(_)
NodesStarted(b) ==
    IF Len(b) = 1 THEN CountNodes(b[1].children)
    ELSE 1 + CountNodes(Last(b).children) + NodesStarted(Front(b))

ParserErrors == Len(errors) - Len(LexErrors(input, 0))

\* The encoder objects while no encoding is under way.
IdleEnumValue ==
    [stage |-> "idle", calls |-> <<>>, builder |-> EnumValueBuilder_new(""),
     value |-> EnumValueBuilder_build(EnumValueBuilder_new("")), text |-> ""]

IdleUnionDef ==
    [stage |-> "idle", calls |-> <<>>, def |-> UnionDef_new(""), text |-> ""]

Init ==
    \E ls \in Inputs :
        /\ enum_value = IdleEnumValue
        /\ union_def = IdleUnionDef
        /\ input = ls
        /\ tokens = new(ls).tokens
        /\ builder = new(ls).builder
        /\ errors = new(ls).errors
        /\ guards = new(ls).guards
        /\ pc = "parsing"
        /\ panic = new(ls).panic
        /\ tree = NoTree
        /\ lookahead = NoLookahead

Bump(kind) ==
    /\ pc = "parsing"
    /\ Store(bump(Self, kind))
    /\ lookahead' = NoLookahead
    /\ UNCHANGED <<input, tree, encoder>>

Expect(token, kind) ==
    /\ pc = "parsing"
    /\ at(Self, token) \/ ParserErrors < MaxErrors
    /\ Store(expect(Self, token, kind))
    /\ lookahead' = NoLookahead
    /\ UNCHANGED <<input, tree, encoder>>

Err(message) ==
    /\ pc = "parsing"
    /\ ParserErrors < MaxErrors
    /\ Store(err(Self, message))
    /\ lookahead' = NoLookahead
    /\ UNCHANGED <<input, tree, encoder>>

ErrAndPop(message) ==
    /\ pc = "parsing"
    /\ ParserErrors < MaxErrors
    /\ Store(err_and_pop(Self, message))
    /\ lookahead' = NoLookahead
    /\ UNCHANGED <<input, tree, encoder>>

StartNode(kind) ==
    /\ pc = "parsing"
    /\ NodesStarted(builder) < MaxNodes
    /\ Store(start_node(Self, kind))
    /\ lookahead' = NoLookahead
    /\ UNCHANGED <<input, tree, encoder>>

\* A guard leaves its scope.
GuardDrop ==
    /\ pc = "parsing"
    /\ guards > 0
    /\ Store(NodeGuard_drop(Self))
    /\ lookahead' = NoLookahead
    /\ UNCHANGED <<input, tree, encoder>>

\* The grammar closes a node early with guard.finish_node().
FinishNode ==
    /\ pc = "parsing"
    /\ guards > 0
    /\ Store(NodeGuard_finish_node(Self))
    /\ lookahead' = NoLookahead
    /\ UNCHANGED <<input, tree, encoder>>

PeekN(n) ==
    /\ pc = "parsing"
    /\ lookahead' = [n    |-> n,
                     kind |-> peek_n(Self, n),
                     data |-> peek_data_n(Self, n)]
    /\ UNCHANGED <<input, tokens, builder, errors, guards, pc, panic, tree,
                   encoder>>

\* The document loop ends at Eof (or with no token left) and parse hands
\* the builder and the errors to finish.
Parse ==
    /\ pc = "parsing"
    /\ peek(Self) \in {None, Some("Eof")}
    /\ LET P == parse(Self)
       IN  /\ tokens' = P.tokens
           /\ builder' = P.builder
           /\ errors' = P.errors
           /\ guards' = P.guards
           /\ panic' = P.panic
           /\ pc' = IF Panicked(P) THEN "panicked" ELSE "done"
           /\ tree' = IF Panicked(P) THEN tree
                      ELSE BuilderFinish(P.builder, P.errors)
    /\ lookahead' = NoLookahead
    /\ UNCHANGED <<input, encoder>>

\* The grammar takes a token off the stream with pop().
Pop ==
    /\ pc = "parsing"
    /\ Store(pop(Self))
    /\ lookahead' = NoLookahead
    /\ UNCHANGED <<input, tree, encoder>>

\* The grammar looks at the next token with peek() and peek_data().
Peek ==
    /\ pc = "parsing"
    /\ lookahead' = [n |-> 0, kind |-> peek(Self), data |-> peek_data(Self)]
    /\ UNCHANGED <<input, tokens, builder, errors, guards, pc, panic, tree,
                   encoder>>

\* The fallback of the document loop: a token that starts no definition is
\* reported and discarded, as long as the next token is not Eof.
Recover(message) ==
    /\ pc = "parsing"
    /\ peek(Self) \notin {None, Some("Eof")}
    /\ Store(err_and_pop(Self, message))
    /\ lookahead' = NoLookahead
    /\ UNCHANGED <<input, tree, encoder>>

\* The driver as the grammar uses it while it builds a tree. pop and the raw
\* peek run in NextTokens and NextLook, the document loop in NextRecover.
Next ==
    \/ \E kind \in BumpKinds : Bump(kind)
    \/ \E pair \in ExpectPairs : Expect(pair[1], pair[2])
    \/ \E message \in ErrMessages : Err(message)
    \/ \E message \in PopMessages : ErrAndPop(message)
    \/ \E kind \in NodeKinds : StartNode(kind)
    \/ GuardDrop
    \/ FinishNode
    \/ \E n \in 1..MaxPeek : PeekN(n)
    \/ Parse

Spec == Init /\ [][Next]_vars

\* The token and error side of the driver on its own: no node is opened.
NextDriver ==
    \/ \E kind \in BumpKinds : Bump(kind)
    \/ \E pair \in ExpectPairs : Expect(pair[1], pair[2])
    \/ \E message \in ErrMessages : Err(message)
    \/ \E message \in PopMessages : ErrAndPop(message)
    \/ Parse

SpecDriver == Init /\ [][NextDriver]_vars

\* The node side of the driver on its own: no error is reported.
NextNodes ==
    \/ \E kind \in BumpKinds : Bump(kind)
    \/ \E kind \in NodeKinds : StartNode(kind)
    \/ GuardDrop
    \/ FinishNode
    \/ Parse

SpecNodes == Init /\ [][NextNodes]_vars

\* The operations that take tokens off the stream, pop among them, and the
\* raw lookahead: no node is opened.
NextTokens ==
    \/ \E kind \in BumpKinds : Bump(kind)
    \/ \E pair \in ExpectPairs : Expect(pair[1], pair[2])
    \/ \E message \in PopMessages : ErrAndPop(message)
    \/ Pop
    \/ Peek
    \/ Parse

SpecTokens == Init /\ [][NextTokens]_vars

\* The operations that do not advance, between bumps.
NextLook ==
    \/ \E kind \in BumpKinds : Bump(kind)
    \/ \E pair \in ExpectPairs : Expect(pair[1], pair[2])
    \/ \E message \in ErrMessages : Err(message)
    \/ Peek
    \/ \E n \in 1..MaxPeek : PeekN(n)
    \/ Parse

SpecLook == Init /\ [][NextLook]_vars

\* The operations that skip trivia; nodes are opened and closed by parse.
NextCursor ==
    \/ \E kind \in BumpKinds : Bump(kind)
    \/ \E pair \in ExpectPairs : Expect(pair[1], pair[2])
    \/ \E message \in PopMessages : ErrAndPop(message)
    \/ \E kind \in NodeKinds : StartNode(kind)
    \/ Parse

SpecCursor == Init /\ [][NextCursor]_vars

\* The document loop on an input where nothing starts a definition; the
\* parser runs to completion, so a step that can be taken is taken.
NextRecover ==
    \/ \E message \in PopMessages : Recover(message)
    \/ Parse

\* Recover can run: the guard of Recover, which takes a token whenever it
\* runs, so this is ENABLED <<Recover>>_vars.
RecoverEnabled == pc = "parsing" /\ peek(Self) \notin {None, Some("Eof")}

\* The loop goes round again while it can: weak fairness of Recover,
\* WF_vars(Recover), with ENABLED written as RecoverEnabled.
RecoverFair ==
    \/ []<>~RecoverEnabled
    \/ []<><<\E message \in PopMessages : Recover(message)>>_vars

SpecRecover == Init /\ [][NextRecover]_vars /\ RecoverFair

(* ---------------------------- encoder runs ----------------------------- *)

Call(op, arg) == [op |-> op, arg |-> arg]

\* The parser while only the encoder is at work.
IdleParser ==
    /\ input = <<>>
    /\ tokens = new(<<>>).tokens
    /\ builder = new(<<>>).builder
    /\ errors = new(<<>>).errors
    /\ guards = new(<<>>).guards
    /\ panic = new(<<>>).panic
    /\ pc = "idle"
    /\ tree = NoTree
    /\ lookahead = NoLookahead

InitEnumValue ==
    /\ IdleParser
    /\ union_def = IdleUnionDef
    /\ \E name \in EnumNames :
           enum_value = [IdleEnumValue EXCEPT
                             !.stage = "builder",
                             !.builder = EnumValueBuilder_new(name)]

EnumDescription(description) ==
    /\ enum_value.stage = "builder"
    /\ Len(enum_value.calls) < MaxCalls
    /\ enum_value' =
           [enum_value EXCEPT
                !.builder = EnumValueBuilder_description(@, description),
                !.calls = Append(@, Call("description", description))]
    /\ UNCHANGED <<parser, union_def>>

EnumDeprecated(reason) ==
    /\ enum_value.stage = "builder"
    /\ Len(enum_value.calls) < MaxCalls
    /\ enum_value' =
           [enum_value EXCEPT
                !.builder = EnumValueBuilder_deprecated(@, reason),
                !.calls = Append(@, Call("deprecated", reason))]
    /\ UNCHANGED <<parser, union_def>>

EnumBuild ==
    /\ enum_value.stage = "builder"
    /\ enum_value' =
           [enum_value EXCEPT
                !.stage = "value",
                !.value = EnumValueBuilder_build(enum_value.builder)]
    /\ UNCHANGED <<parser, union_def>>

EnumToString ==
    /\ enum_value.stage = "value"
    /\ enum_value' =
           [enum_value EXCEPT
                !.stage = "text",
                !.text = EnumValue_fmt(enum_value.value)]
    /\ UNCHANGED <<parser, union_def>>

NextEnumValue ==
    \/ \E description \in Sources : EnumDescription(description)
    \/ \E reason \in Sources : EnumDeprecated(reason)
    \/ EnumBuild
    \/ EnumToString

SpecEnumValue == InitEnumValue /\ [][NextEnumValue]_vars

InitUnionDef ==
    /\ IdleParser
    /\ enum_value = IdleEnumValue
    /\ \E name \in UnionNames :
           union_def = [IdleUnionDef EXCEPT
                            !.stage = "def", !.def = UnionDef_new(name)]

UnionDescription(description) ==
    /\ union_def.stage = "def"
    /\ Len(union_def.calls) < MaxCalls
    /\ union_def' =
           [union_def EXCEPT
                !.def = UnionDef_description(@, description),
                !.calls = Append(@, Call("description", description))]
    /\ UNCHANGED <<parser, enum_value>>

UnionMember(member) ==
    /\ union_def.stage = "def"
    /\ Len(union_def.calls) < MaxCalls
    /\ union_def' =
           [union_def EXCEPT
                !.def = UnionDef_member(@, member),
                !.calls = Append(@, Call("member", <<member>>))]
    /\ UNCHANGED <<parser, enum_value>>

UnionToString ==
    /\ union_def.stage = "def"
    /\ union_def' =
           [union_def EXCEPT
                !.stage = "text", !.text = UnionDef_fmt(union_def.def)]
    /\ UNCHANGED <<parser, enum_value>>

NextUnionDef ==
    \/ \E description \in Sources : UnionDescription(description)
    \/ \E member \in UnionMembers : UnionMember(member)
    \/ UnionToString

SpecUnionDef == InitUnionDef /\ [][NextUnionDef]_vars

(* ---------------------------- properties ------------------------------- *)

Range(s) == {s[i] : i \in 1..Len(s)}

IsPrefix(s, t) == Len(s) <= Len(t) /\ SubSeq(t, 1, Len(s)) = s

\* The leaves below a list of children, left to right.
RECURSIVE Leaves(_)
Leaves(cs) ==
    IF cs = <<>> THEN <<>>
    ELSE (IF Head(cs).node THEN Leaves(Head(cs).children) ELSE <<Head(cs)>>)
         \o Leaves(Tail(cs))

\* The leaves given to the builder so far, in the order they were given.
RECURSIVE Emitted(_)
Emitted(b) ==
    IF b = <<>> THEN <<>> ELSE Emitted(Front(b)) \o Leaves(Last(b).children)

RECURSIVE Concat(_)
Concat(texts) ==
    IF texts = <<>> THEN "" ELSE Head(texts) \o Concat(Tail(texts))

DataOf(ts) == [i \in 1..Len(ts) |-> ts[i].data]

TextOf(leaves) == [i \in 1..Len(leaves) |-> leaves[i].text]

KindsOf(leaves) == [i \in 1..Len(leaves) |-> leaves[i].kind]

\* The tokens of the input in source order, and those already taken.
Lexed == LexTokens(input, 0)

Consumed == SubSeq(Lexed, 1, Len(Lexed) - Len(tokens))

Trivia == {"Whitespace", "Comment", "Comma"}

TriviaTag(k) ==
    CASE k = "Whitespace" -> "WHITESPACE"
      [] k = "Comment"    -> "COMMENT"
      [] k = "Comma"      -> "COMMA"
      [] OTHER            -> "NONE"

\* The upcoming tokens in source order.
Upcoming == Reverse(tokens)

\* Length of the maximal run of trivia at the head of ts.
RunLen(ts) ==
    CHOOSE n \in 0..Len(ts) :
        /\ \A i \in 1..n : ts[i].kind \in Trivia
        /\ (n < Len(ts) => ts[n + 1].kind \notin Trivia)

\* C1: the text given to the builder so far is the text of the tokens taken
\* from the stream so far (each taken token is emitted with its data
\* unchanged), so that once the run is over and only Eof is left the text of
\* the tokens under DOCUMENT is the text of the input's tokens.
C1_RoundTrip ==
    /\ Concat(TextOf(Emitted(builder))) = Concat(DataOf(Consumed))
    /\ (pc = "done" /\ peek(Self) \in {None, Some("Eof")}
            => Concat(TextOf(Leaves(tree.root.children))) = Concat(DataOf(Lexed)))

\* C2: every start_node is matched by exactly one finish_node, issued when
\* its guard is released: the open frames of the builder are the root and one
\* per live guard, the builder is never asked to close the root, and parse
\* hands over a builder with no live guard and the root frame only.
C2_WellNested ==
    /\ Len(builder) = guards + 1
    /\ panic \notin {"finish_node without start_node",
                     "More than one reference to builder left",
                     "finish with an unclosed node"}
    /\ (pc = "done" =>
            /\ guards = 0
            /\ Len(builder) = 1
            /\ tree.root = Node("DOCUMENT", builder[1].children))

\* A finished run in which two nodes were opened and closed.
C2_Witness ==
    /\ pc = "done"
    /\ CountNodes(tree.root.children) >= 2

\* C3: with a token to look at, expect(expected, tag) does what bump(tag)
\* does and records no error when the token is of the expected kind;
\* otherwise the stream and the tree stay as they are and exactly one error
\* "expected <tag>, got <data>" with the current token's data and index is
\* appended.
C3_Expect ==
    [][\A pair \in ExpectPairs :
         (Expect(pair[1], pair[2]) /\ tokens # <<>>) =>
            IF Last(tokens).kind = pair[1]
            THEN /\ tokens' = bump(Self, pair[2]).tokens
                 /\ builder' = bump(Self, pair[2]).builder
                 /\ Len(tokens') < Len(tokens)
                 /\ errors' = errors
            ELSE /\ tokens' = tokens
                 /\ builder' = builder
                 /\ errors' = Append(errors,
                        Error("expected " \o pair[2] \o ", got "
                                          \o Last(tokens).data,
                              Last(tokens).data, Last(tokens).index))]_vars

\* A failed expect at a comma and a successful one have both happened.
C3_Witness ==
    /\ \E i \in 1..Len(errors) : errors[i].message = "expected NAME, got ,"
    /\ \E i \in 1..Len(Emitted(builder)) : Emitted(builder)[i].kind = "NAME"

\* The k-th upcoming token that is not trivia, if there is one.
KthSignificant(k) ==
    LET IsSignificant(t) == t.kind \notin Trivia
        kept == SelectSeq(Upcoming, IsSignificant)
    IN  IF k <= Len(kept) THEN Some(kept[k]) ELSE None

\* C4: peek_n(k) is the kind, and peek_data_n(k) the data, of the k-th
\* upcoming token that is not Whitespace, Comment or Comma, and nothing when
\* fewer than k such tokens remain.
C4_PeekN ==
    lookahead.n # 0 =>
        LET want == KthSignificant(lookahead.n)
        IN  IF want.some
            THEN /\ lookahead.kind = Some(want.val.kind)
                 /\ lookahead.data = Some(want.val.data)
            ELSE /\ lookahead.kind = None
                 /\ lookahead.data = None

\* C5: the errors of the returned tree are in source order, non-decreasing
\* by index.
C5_SourceOrder ==
    pc = "done" =>
        \A i, j \in 1..Len(tree.errors) :
            i < j => tree.errors[i].index <= tree.errors[j].index

\* The depth at which start_node is to refuse (500 is recommended; scaled).
DepthLimit == 1

OpenNodes == Len(builder) - 1

\* C6: the number of simultaneously open nodes never exceeds the limit.
C6_BoundedDepth == OpenNodes <= DepthLimit

\* C7: no driver operation raises to the caller, whatever is left in the
\* token stream.
C7_NeverAborts == pc # "panicked"

\* C8: an error recorded by err, err_and_pop or a failing expect carries
\* the data and the index of the token that was current when the operation
\* was called, and that index lies within [0, input.len()].
C8_ErrorLocality ==
    [][errors' # errors =>
         /\ tokens # <<>>
         /\ errors' = Append(errors, Last(errors'))
         /\ Last(errors').data = Last(tokens).data
         /\ Last(errors').index = Last(tokens).index
         /\ Last(tokens) \in Range(Lexed)
         /\ Last(errors').index \in 0..InputLen(input)]_vars

\* An error from err and one from err_and_pop are recorded, the latter past
\* the start of the input.
C8_Witness ==
    \E i, j \in 1..Len(errors) :
        /\ errors[i].message = "expected a Name"
        /\ errors[j].message = "expected definition"
        /\ errors[j].index > 0

\* C9: bump(kind) takes the next token and the maximal run of trivia right
\* after it and nothing more; the first token is emitted tagged kind, the
\* trivia in source order tagged after their own kinds, and the token that
\* is next afterwards is not trivia.
C9_Bump ==
    [][\A kind \in BumpKinds :
         (Bump(kind) /\ tokens # <<>>) =>
            LET first == Head(Upcoming)
                rest  == Tail(Upcoming)
                run   == SubSeq(rest, 1, RunLen(rest))
            IN  /\ tokens' = SubSeq(tokens, 1, Len(tokens) - 1 - Len(run))
                /\ Emitted(builder') =
                       Emitted(builder) \o <<Leaf(kind, first.data)>>
                       \o [i \in 1..Len(run) |->
                              Leaf(TriviaTag(run[i].kind), run[i].data)]
                /\ Len(builder') = Len(builder)
                /\ (tokens' # <<>> => Last(tokens').kind \notin Trivia)
                /\ errors' = errors]_vars

\* A bump has taken a token and a run of two trivia tokens after it.
C9_Witness ==
    \E i \in 1..Len(Emitted(builder)) - 2 :
        /\ Emitted(builder)[i].kind = "NAME"
        /\ Emitted(builder)[i + 1].kind = "COMMA"
        /\ Emitted(builder)[i + 2].kind \in {"WHITESPACE", "COMMENT"}

\* C10: the error list only grows, it holds every lexer error exactly once,
\* and the returned tree carries the whole list.
C10_ErrorsKept ==
    [][/\ IsPrefix(errors, errors')
       /\ \A e \in Range(LexErrors(input, 0)) :
              Cardinality({i \in 1..Len(errors') : errors'[i] = e}) = 1
       /\ (pc' = "done" => tree'.errors = errors')]_vars

\* A tree was returned with a lexer error and two errors of the parser.
C10_Witness ==
    /\ pc = "done"
    /\ Len(LexErrors(input, 0)) >= 1
    /\ Len(tree.errors) >= Len(LexErrors(input, 0)) + 2

\* The calls of one kind among calls, by position.
CallsOf(calls, op) == {i \in 1..Len(calls) : calls[i].op = op}

MaxOf(S) == CHOOSE i \in S : \A j \in S : j <= i

\* The argument of the last call of one kind, if there was one.
LastArg(calls, op) ==
    IF CallsOf(calls, op) = {} THEN NoSource
    ELSE SomeSource(calls[MaxOf(CallsOf(calls, op))].arg)

\* C11: the built EnumValue is deprecated iff deprecated(reason) was called,
\* with the last reason; its Display output is the encoded description
\* (empty when none was set), two spaces and the name, then
\* " @deprecated(reason:" + the encoded reason + ")" iff it is deprecated;
\* with neither it is two spaces and the name.
C11_EnumValue ==
    LET calls  == enum_value.calls
        name   == enum_value.builder.name
        desc   == LastArg(calls, "description")
        reason == LastArg(calls, "deprecated")
    IN  /\ (enum_value.stage \in {"value", "text"} =>
               /\ enum_value.value.is_deprecated = reason.some
               /\ enum_value.value.deprecation_reason.source = reason)
        /\ (enum_value.stage = "text" =>
               /\ enum_value.text =
                      StringValue_fmt(StringValue("Field", desc))
                      \o "  " \o name
                      \o (IF reason.some
                          THEN " @deprecated(reason:"
                               \o StringValue_fmt(StringValue("Reason", reason))
                               \o ")"
                          ELSE "")
               /\ (~desc.some => StringValue_fmt(StringValue("Field", desc)) = "")
               /\ (~desc.some /\ ~reason.some =>
                      enum_value.text = "  " \o name))

\* An EnumValue with a description, deprecated twice, has been printed.
C11_Witness ==
    /\ enum_value.stage = "text"
    /\ Cardinality(CallsOf(enum_value.calls, "deprecated")) >= 2
    /\ enum_value.text =
           "  \"Box nap spot.\"\n  CAT_TREE @deprecated(reason: \"Box nap spot.\")"

RECURSIVE JoinPipe(_)
JoinPipe(ms) ==
    IF ms = <<>> THEN ""
    ELSE IF Len(ms) = 1 THEN ms[1]
    ELSE JoinPipe(Front(ms)) \o " | " \o Last(ms)

\* The members added by calls, in the order of the calls.
RECURSIVE MembersOf(_)
MembersOf(calls) ==
    IF calls = <<>> THEN <<>>
    ELSE (IF Head(calls).op = "member" THEN Head(calls).arg ELSE <<>>)
         \o MembersOf(Tail(calls))

\* C12: Display of a UnionDef is the encoded description (the last one set,
\* empty if none), "union <name> = ", the members in the order they were
\* added, duplicates kept, joined by " | ", and one newline.
C12_UnionDef ==
    union_def.stage = "text" =>
        union_def.text =
            StringValue_fmt(StringValue("Top",
                                        LastArg(union_def.calls, "description")))
            \o "union " \o union_def.def.name \o " = "
            \o JoinPipe(MembersOf(union_def.calls)) \o "\n"

\* The union of the documentation, with a description, has been printed.
C12_Witness ==
    /\ union_def.stage = "text"
    /\ union_def.text = "\"Box nap spot.\"\nunion Pet = Cat | Dog\n"

\* The leaves bump_ignored makes of a run of trivia tokens.
TriviaLeaves(run) ==
    [i \in 1..Len(run) |-> Leaf(TriviaTag(run[i].kind), run[i].data)]

AtEof == tokens # <<>> /\ Last(tokens).kind = "Eof"

\* C13: err_and_pop on a token takes that token and the maximal run of
\* trivia after it off the stream, so fewer tokens remain, and appends
\* exactly one error with the data and index of the discarded token; a loop
\* that repeats it on tokens other than Eof reaches Eof.
C13_Progress ==
    /\ [][\A message \in PopMessages :
            Recover(message) =>
               LET first == Head(Upcoming)
                   rest  == Tail(Upcoming)
                   run   == SubSeq(rest, 1, RunLen(rest))
               IN  /\ tokens' = SubSeq(tokens, 1, Len(tokens) - 1 - Len(run))
                   /\ Len(tokens') < Len(tokens)
                   /\ Emitted(builder') = Emitted(builder) \o TriviaLeaves(run)
                   /\ errors' = Append(errors,
                                       Error(message, first.data, first.index))]_vars
    /\ <>AtEof

\* The loop has discarded two tokens, skipped trivia and stands at Eof.
C13_Witness ==
    /\ AtEof
    /\ ParserErrors >= 2
    /\ Emitted(builder) # <<>>
    /\ Last(errors).index > 1

\* The upcoming tokens are the tokens of the lexer not yet taken, in the
\* lexer's order, and peek, peek_token and peek_data show the first of them.
LeftToRight ==
    LET taken == Len(Lexed) - Len(tokens)
    IN  /\ taken >= 0
        /\ Upcoming = SubSeq(Lexed, taken + 1, Len(Lexed))
        /\ IF tokens = <<>>
           THEN /\ ~peek(Self).some
                /\ ~peek_token(Self).some
                /\ ~peek_data(Self).some
           ELSE /\ peek(Self) = Some(Lexed[taken + 1].kind)
                /\ peek_token(Self).some
                /\ peek_token(Self).val = Lexed[taken + 1]
                /\ peek_data(Self) = Some(Lexed[taken + 1].data)

\* C14: tokens leave the stream left to right: whatever mix of bump, expect,
\* err_and_pop and pop has run, the stream holds the lexer's tokens from the
\* first one not yet taken on, a step only takes tokens from its front, and
\* the raw lookahead shows the earliest token not yet taken.
C14_LeftToRight ==
    [][/\ LeftToRight
       /\ LeftToRight'
       /\ IsPrefix(tokens', tokens)]_vars

\* Every token was taken, some by bump and some by pop or err_and_pop.
C14_Witness ==
    /\ tokens = <<>>
    /\ Len(Lexed) >= 3
    /\ Emitted(builder) # <<>>
    /\ Len(Emitted(builder)) < Len(Lexed) - 1
    /\ pc = "parsing"

\* C15: start_node(kind) opens the node and then takes the run of trivia at
\* the head of the stream, whose tokens become the first children of the new
\* node; the next token is then not trivia, nothing else is taken and no
\* error is recorded.
C15_StartNode ==
    [][\A kind \in NodeKinds :
         StartNode(kind) =>
            LET run == SubSeq(Upcoming, 1, RunLen(Upcoming))
            IN  /\ builder' = Append(builder,
                                     [kind |-> kind,
                                      children |-> TriviaLeaves(run)])
                /\ tokens' = SubSeq(tokens, 1, Len(tokens) - Len(run))
                /\ (tokens' # <<>> => Last(tokens').kind \notin Trivia)
                /\ guards' = guards + 1
                /\ errors' = errors]_vars

\* An open node whose first child is a trivia token.
C15_Witness ==
    /\ Len(builder) > 1
    /\ Last(builder).children # <<>>
    /\ Head(Last(builder).children).kind \in {"WHITESPACE", "COMMENT", "COMMA"}

TokenKinds == {"Name", "Whitespace", "Comment", "Comma", "Eof"}

\* C16: the lookahead operations leave the stream, the tree and the errors
\* as they are; at(kind) is true iff there is a next token and it is of
\* that kind, trivia included; err(msg) with a token to point at appends
\* exactly one error and leaves the stream and the tree as they are.
C16_NoAdvance ==
    [][/\ \A kind \in TokenKinds :
              at(Self, kind) <=> (tokens # <<>> /\ Last(tokens).kind = kind)
       /\ (Peek \/ \E n \in 1..MaxPeek : PeekN(n)) =>
              /\ tokens' = tokens
              /\ builder' = builder
              /\ errors' = errors
       /\ \A message \in ErrMessages :
              (Err(message) /\ tokens # <<>>) =>
                 /\ tokens' = tokens
                 /\ builder' = builder
                 /\ Len(errors') = Len(errors) + 1
                 /\ IsPrefix(errors, errors')
                 /\ Last(errors').message = message]_vars

\* After a bump and an err the grammar has looked two tokens ahead.
C16_Witness ==
    /\ lookahead.n = 2
    /\ lookahead.kind.some
    /\ ParserErrors >= 1
    /\ Emitted(builder) # <<>>

\* The parser as it is after the step.
SelfNext ==
    [tokens |-> tokens', builder |-> builder', errors |-> errors',
     guards |-> guards', panic |-> panic']

\* C17: right after a bump, a successful expect, an err_and_pop or a
\* start_node, while tokens remain, peek_n(1) is peek() and peek_data_n(1)
\* is peek_data().
C17_LookaheadAgrees ==
    [][((\/ \E kind \in BumpKinds : Bump(kind)
         \/ \E pair \in ExpectPairs :
                Expect(pair[1], pair[2]) /\ at(Self, pair[1])
         \/ \E message \in PopMessages : ErrAndPop(message)
         \/ \E kind \in NodeKinds : StartNode(kind))
        /\ pc' = "parsing" /\ tokens' # <<>>)
       => /\ peek_n(SelfNext, 1) = peek(SelfNext)
          /\ peek_data_n(SelfNext, 1) = peek_data(SelfNext)]_vars

\* A node was opened, a token discarded and a name is next.
C17_Witness ==
    /\ pc = "parsing"
    /\ Len(builder) > 1
    /\ ParserErrors >= 1
    /\ tokens # <<>>
    /\ Last(tokens).kind = "Name"
    /\ peek_n(Self, 1) = Some("Name")

====
